---------------------------- MODULE Spec2Model ----------------------------
(***************************************************************************)
(* A model of the t-diagram package: the tree/geometry engine (TDiagram),  *)
(* the cost engine (TDiagramCost) and the genetic optimizer                *)
(* (TDiagramDrawer).                                                       *)
(*                                                                         *)
(* Numbers are exact.  Lengths of the modelled diagrams are multiples of   *)
(* LengthUnit and break fractions are hundredths (FracDen), so that every  *)
(* product and quotient the code computes is an integer.                   *)
(*                                                                         *)
(* A JavaScript object used as an ordered map (the geometry map, a bend    *)
(* map) is a sequence of entries in insertion order.  A node name is a     *)
(* record [s, n, e]: the text s, the random number n of a break name       *)
(* 'b'+rand (0 otherwise) and e, whether the name ends with '_end'.        *)
(***************************************************************************)
EXTENDS Integers, Sequences, FiniteSets, TLC

\* ------------------------------------------------------------------ numbers

Abs(a) == IF a < 0 THEN -a ELSE a
Min(a, b) == IF a < b THEN a ELSE b
Max(a, b) == IF a > b THEN a ELSE b

\* the denominator of a break fraction: a fraction f stands for f / FracDen
FracDen == 100

Range(s) == {s[i] : i \in 1..Len(s)}

RECURSIVE SeqSum(_)
SeqSum(s) == IF s = <<>> THEN 0 ELSE Head(s) + SeqSum(Tail(s))

RECURSIVE Concat(_)
Concat(ss) == IF ss = <<>> THEN <<>> ELSE Head(ss) \o Concat(Tail(ss))

Reverse(s) == [i \in 1..Len(s) |-> s[Len(s) + 1 - i]]

\* Array.prototype.indexOf, 0-based, -1 when absent
IndexOf(s, v) == IF \E i \in 1..Len(s) : s[i] = v THEN (CHOOSE i \in 1..Len(s) : s[i] = v /\ \A j \in 1..(i-1) : s[j] # v) - 1 ELSE -1

\* ---------------------------------------------------------------- constants

POINTING_UP == 0
POINTING_RIGHT == 1
POINTING_DOWN == 2
POINTING_LEFT == 3
HORIZONTAL == 1
VERTICAL == 0

\* -------------------------------------------------------------------- names

Name(s) == [s |-> s, n |-> 0, e |-> FALSE]
\* '' / null / undefined as a parent
NoName == Name("")
\* root.name + '_end'
EndName(nm) == [nm EXCEPT !.e = TRUE]
\* 'b' + rand
BreakName(rand) == [s |-> "b", n |-> rand, e |-> FALSE]
\* k.endsWith('_end')
EndsWithEnd(nm) == nm.e

\* ------------------------------------------------------------------ helpers

\* Math.round((M - m) / 2) for M >= m
RoundHalf(d) == (d + 1) \div 2

RECURSIVE binarySearchLoop(_, _, _, _, _)
binarySearchLoop(arr, x, m, M, mid) ==
    IF m > M THEN [found |-> FALSE, mid |-> mid]
    ELSE LET nmid == m + RoundHalf(M - m) IN
         IF arr[nmid + 1] - x = 0 THEN [found |-> TRUE, mid |-> nmid]
         ELSE IF arr[nmid + 1] - x < 0 THEN binarySearchLoop(arr, x, nmid + 1, M, nmid)
         ELSE binarySearchLoop(arr, x, m, nmid - 1, nmid)

\* helpers.binarySearch(arr, x) on a non-empty array of numbers (the trans
\* argument is applied by the callers); indices are 0-based as in the code
binarySearch(arr, x) ==
    LET nearest(i1, i2) ==
            IF arr[i1 + 1] - x > 0 THEN i1
            ELSE IF arr[i2 + 1] - x > 0 THEN i2 ELSE i2 + 1
        after(mid) == nearest(Max(0, mid - 1), mid)
        answer(r) == IF r.found THEN r.mid ELSE after(Min(Max(0, r.mid), Len(arr) - 1))
    IN answer(binarySearchLoop(arr, x, 0, Len(arr) - 1, 0))

\* ------------------------------------------------------- tree/geometry engine

\* a node of the input list, as the user gives it; branch_at is <<>> when
\* the property is absent (or null) and <<v>> otherwise
Node(s, parent, direction, length, seq, branch_at) ==
    [name |-> Name(s), parent |-> parent, direction |-> direction, length |-> length,
     seq |-> seq, branch_at |-> branch_at, hidden |-> FALSE, children |-> <<>>,
     end_added |-> FALSE, pointing |-> 0, x |-> 0, y |-> 0]

NodeNames(dia) == {dia[i].name : i \in 1..Len(dia)}

RECURSIVE treeFold(_, _)
\* the backwards pass of TDiagram.tree over the remaining items (last first)
treeFold(t, items) ==
    IF items = <<>> THEN t
    ELSE LET item == items[Len(items)]
             rest == SubSeq(items, 1, Len(items) - 1)
         IN IF \E i \in 1..Len(t.top) : t.top[i] = item.parent
            THEN treeFold([top |-> SelectSeq(t.top, LAMBDA k : k # item.name),
                           nodes |-> [t.nodes EXCEPT ![item.parent].children = <<item.name>> \o @]],
                          rest)
            ELSE treeFold(t, rest)

\* TDiagram.tree: top is the sequence of keys left in the top-level map, nodes
\* maps a name to its node object (children reset to [])
tree(dia) ==
    treeFold([top |-> [i \in 1..Len(dia) |-> dia[i].name],
              nodes |-> [nm \in NodeNames(dia) |->
                           LET i == CHOOSE j \in 1..Len(dia) : dia[j].name = nm /\ \A k \in (j+1)..Len(dia) : dia[k].name # nm
                           IN [dia[i] EXCEPT !.children = <<>>]]],
             dia)

\* TDiagram.getRoot: the first key of the top-level map
getRoot(t) == t.top[1]

getCoordToUpdate(pointing_dir) == IF pointing_dir = POINTING_RIGHT \/ pointing_dir = POINTING_LEFT THEN "x" ELSE "y"

getDirectionToUpdate(pointing_dir) == IF pointing_dir = POINTING_RIGHT \/ pointing_dir = POINTING_DOWN THEN 1 ELSE -1

\* the delta of a node along its parent's branch
Delta(node, parent) ==
    IF node.branch_at = <<>>
    THEN ((node.seq + 1) * parent.length) \div Len(parent.children)
    ELSE node.branch_at[1]

\* the pointing of a child of a node that points `pointing`
ChildPointing(pointing, direction) == (4 + pointing + (IF direction = "right" THEN 1 ELSE -1)) % 4

\* a segment-end left at the node's own coordinate
EndSegAtNode(root) ==
    [name |-> EndName(root.name), parent |-> root.name, direction |-> "", length |-> 0,
     seq |-> 0, branch_at |-> <<root.length>>, hidden |-> TRUE, children |-> <<>>,
     end_added |-> TRUE, pointing |-> root.pointing, x |-> root.x, y |-> root.y]

\* the segment-end node of a node
EndSeg(root) ==
    [name |-> EndName(root.name), parent |-> root.name, direction |-> "", length |-> 0,
     seq |-> 0, branch_at |-> <<root.length>>, hidden |-> TRUE, children |-> <<>>,
     end_added |-> TRUE, pointing |-> root.pointing,
     x |-> root.x + (IF getCoordToUpdate(root.pointing) = "x" THEN root.length * getDirectionToUpdate(root.pointing) ELSE 0),
     y |-> root.y + (IF getCoordToUpdate(root.pointing) = "y" THEN root.length * getDirectionToUpdate(root.pointing) ELSE 0)]

RECURSIVE setUpCoordinates(_, _, _, _)
RECURSIVE setUpChildren(_, _, _, _)

\* root.children.forEach(child => setUpCoordinates(child, root, ...))
setUpChildren(nodes, root, kids, pointing) ==
    IF kids = <<>> THEN nodes
    ELSE setUpChildren(setUpCoordinates(nodes, Head(kids), nodes[root], ChildPointing(pointing, nodes[Head(kids)].direction)),
                       root, Tail(kids), pointing)

\* setUpCoordinates(root, parent, pointing): nodes after the call
setUpCoordinates(nodes, root, parent, pointing) ==
    LET place(step) ==
            [nodes EXCEPT ![root].pointing = pointing,
                          ![root].x = parent.x + (IF getCoordToUpdate(parent.pointing) = "x" THEN step ELSE 0),
                          ![root].y = parent.y + (IF getCoordToUpdate(parent.pointing) = "y" THEN step ELSE 0)]
        children(placed) == setUpChildren(placed, root, placed[root].children, pointing)
        add(done, end_seg) ==
            [nm \in DOMAIN done \cup {end_seg.name} |->
               IF nm = end_seg.name THEN end_seg
               ELSE IF nm = root THEN [done[root] EXCEPT !.children = Append(@, end_seg.name), !.end_added = TRUE]
               ELSE done[nm]]
        end(done) == IF done[root].end_added THEN done ELSE add(done, EndSeg(done[root]))
    IN end(children(place(Delta(nodes[root], parent) * getDirectionToUpdate(parent.pointing))))

\* the dummy parent computeCoord hands to setUpCoordinates
DummyParent(root) == [x |-> 0, y |-> 0, length |-> 0, direction |-> "right", pointing |-> POINTING_UP, children |-> <<root>>]

\* TDiagram.computeCoord: the tree with coordinates (and segment ends)
computeCoord(t) == [t EXCEPT !.nodes = setUpCoordinates(t.nodes, getRoot(t), DummyParent(getRoot(t)), POINTING_RIGHT)]

\* new TDiagram(diagram) followed by the first coordinate-requiring query
TDiagram(dia) == computeCoord(tree(dia))

\* the geometry of one node
GeometryNode(node) ==
    [name |-> node.name, x |-> node.x, y |-> node.y, pointing |-> node.pointing,
     length |-> node.length, parent |-> node.parent, children |-> node.children,
     hidden |-> node.hidden, branch_at |-> node.branch_at]

RECURSIVE getGeometryFrom(_, _)
RECURSIVE getGeometryChildren(_, _)

getGeometryChildren(nodes, kids) ==
    IF kids = <<>> THEN <<>> ELSE getGeometryFrom(nodes, Head(kids)) \o getGeometryChildren(nodes, Tail(kids))

\* TDiagram.getGeometry(root): the map as the sequence of its entries
getGeometryFrom(nodes, root) == <<GeometryNode(nodes[root])>> \o getGeometryChildren(nodes, nodes[root].children)

\* TDiagram.getGeometry() of a tree whose coordinates are computed
getGeometry(t) == getGeometryFrom(t.nodes, getRoot(t))

HasKey(geo, nm) == \E i \in 1..Len(geo) : geo[i].name = nm

KeyIndex(geo, nm) == CHOOSE i \in 1..Len(geo) : geo[i].name = nm

Get(geo, nm) == geo[KeyIndex(geo, nm)]

Keys(geo) == [i \in 1..Len(geo) |-> geo[i].name]

\* -------------------------------------------------------------- cost engine

\* a drawable segment [[x1, y1], [x2, y2]]
Segment(node, child) == <<<<node.x, node.y>>, <<child.x, child.y>>>>

\* the segments of the graph: one per (node, child) pair, in key order
Segments(geo) == Concat([i \in 1..Len(geo) |-> [j \in 1..Len(geo[i].children) |-> Segment(geo[i], Get(geo, geo[i].children[j]))]])

\* project(axis), axis 0 or 1
project(axis, segment) == [projected |-> <<segment[1][axis + 1], segment[2][axis + 1]>>, other |-> segment[1][2 - axis]]

is_horizontal(segment) == segment[1][2] = segment[2][2]

is_vertical(segment) == segment[1][1] = segment[2][1]

inverse(segment) == <<segment[2], segment[1]>>

RECURSIVE Digits(_)
\* the decimal digits of a natural number, most significant first
Digits(n) == IF n < 10 THEN <<n>> ELSE Append(Digits(n \div 10), n % 10)

\* String(n) as character codes: '-' is -1 (it sorts before every digit)
NumberToString(n) == IF n < 0 THEN <<-1>> \o Digits(-n) ELSE Digits(n)

RECURSIVE StringLess(_, _)
\* a < b for strings, by code unit
StringLess(a, b) ==
    IF b = <<>> THEN FALSE
    ELSE IF a = <<>> THEN TRUE
    ELSE IF Head(a) # Head(b) THEN Head(a) < Head(b)
    ELSE StringLess(Tail(a), Tail(b))

\* s.sort() of a two-element array of numbers: the default comparison is by
\* the elements' strings
DefaultSortPair(s) == IF StringLess(NumberToString(s[2]), NumberToString(s[1])) THEN <<s[2], s[1]>> ELSE s

RECURSIVE InsertBy(_, _)
\* the pair v = <<key, element>> inserted after every pair of the sorted s
\* whose key is <= v's key
InsertBy(s, v) ==
    IF s = <<>> THEN <<v>>
    ELSE IF v[1] < Head(s)[1] THEN <<v>> \o s
    ELSE <<Head(s)>> \o InsertBy(Tail(s), v)

RECURSIVE InsertAll(_)
InsertAll(keyed) == IF keyed = <<>> THEN <<>> ELSE InsertBy(InsertAll(SubSeq(keyed, 1, Len(keyed) - 1)), keyed[Len(keyed)])

\* Array.prototype.sort((a, b) => key(a) - key(b)), a stable sort: s is the
\* array and keys[i] the key of s[i]
SortBy(keys, s) ==
    LET sorted == InsertAll([i \in 1..Len(s) |-> <<keys[i], s[i]>>])
    IN [i \in 1..Len(s) |-> sorted[i][2]]

\* the count one group of collinear segments adds
GroupCount(group) ==
    LET fixed(segments, segment, max_ind) ==
            IF segments[max_ind + 1][1] > segment[2] THEN max_ind - 1 ELSE max_ind
        counted(segments, index, max_ind) ==
            IF max_ind <= index THEN 0
            ELSE fixed(segments, segments[index + 1], IF max_ind >= Len(segments) THEN Len(segments) - 1 ELSE max_ind) - index
        each(segments, starts) ==
            SeqSum([i \in 1..Len(segments) |-> counted(segments, i - 1, binarySearch(starts, segments[i][2]))])
        count(segments) == each(segments, [i \in 1..Len(segments) |-> segments[i][1]])
        sorted(pairs) == SortBy([i \in 1..Len(pairs) |-> pairs[i][1]], pairs)
    IN IF Len(group) = 1 THEN 0
       ELSE count(sorted([i \in 1..Len(group) |-> DefaultSortPair(group[i])]))

\* uni_dir_intersections(segments) of projected segments
uni_dir_intersections(segments) ==
    LET others == {segments[i].other : i \in 1..Len(segments)}
        grouped(o) == LET sel == SelectSeq(segments, LAMBDA s : s.other = o) IN [i \in 1..Len(sel) |-> sel[i].projected]
        RECURSIVE total(_)
        total(os) == IF os = {} THEN 0 ELSE LET o == CHOOSE v \in os : TRUE IN GroupCount(grouped(o)) + total(os \ {o})
    IN total(others)

getIntersection(set, segment) == Cardinality({hor \in set : segment[1][2] <= hor[1][2] /\ hor[1][2] <= segment[2][2]})

RECURSIVE sweep(_, _, _)
\* the forEach of perp_intersections over the sorted segments
sweep(segments, set, count) ==
    IF segments = <<>> THEN count
    ELSE LET segment == Head(segments) IN
         IF is_vertical(segment) THEN sweep(Tail(segments), set, count + getIntersection(set, segment))
         ELSE IF inverse(segment) \in set THEN sweep(Tail(segments), set \ {inverse(segment)}, count)
         ELSE sweep(Tail(segments), set \cup {segment}, count)

\* perp_intersections(segments)
perp_intersections(segments) ==
    LET doubled == segments \o [i \in 1..Len(segments) |-> inverse(segments[i])]
    IN sweep(SortBy([i \in 1..Len(doubled) |-> doubled[i][1][1]], doubled), {}, 0)

\* TDiagramCost.intersections on a geometry map
intersections(geo) ==
    LET projected(axis, segs) == [i \in 1..Len(segs) |-> project(axis, segs[i])]
        count(segments) ==
            uni_dir_intersections(projected(0, SelectSeq(segments, is_horizontal)))
            + uni_dir_intersections(projected(1, SelectSeq(segments, is_vertical)))
            + perp_intersections(segments)
    IN count(Segments(geo))

\* TDiagram.getBounds with the coordinates of every geometry entry
getBounds(geo) ==
    [left |-> CHOOSE v \in {geo[i].x : i \in 1..Len(geo)} : \A i \in 1..Len(geo) : v <= geo[i].x,
     right |-> CHOOSE v \in {geo[i].x : i \in 1..Len(geo)} : \A i \in 1..Len(geo) : v >= geo[i].x,
     top |-> CHOOSE v \in {geo[i].y : i \in 1..Len(geo)} : \A i \in 1..Len(geo) : v <= geo[i].y,
     bottom |-> CHOOSE v \in {geo[i].y : i \in 1..Len(geo)} : \A i \in 1..Len(geo) : v >= geo[i].y]

\* TDiagram.getCanvasHeight, the margins being 0
getCanvasHeight(geo) == getBounds(geo).bottom - getBounds(geo).top

\* TDiagram.getCanvasWidth, the margins being 0
getCanvasWidth(geo) == getBounds(geo).right - getBounds(geo).left

\* the prefered_aspect_ratio the model passes to cost
PreferedAspectRatio == 1

\* ar - 1 of TDiagramCost.cost: Math.exp(exponent[1] / exponent[2]) - 1 when
\* the quotients are numbers; 0 / 0 is NaN and a division of a positive
\* number by 0 is Infinity, which Math.max, Math.min and Math.exp hand on
ar_factor(geo, par) ==
    LET factor(width, height) ==
            IF width = 0 /\ height = 0
            THEN [nan |-> TRUE, infinite |-> FALSE, exponent |-> <<0, 1>>]
            ELSE IF width = 0 \/ height = 0
            THEN [nan |-> FALSE, infinite |-> TRUE, exponent |-> <<0, 1>>]
            ELSE IF width >= par * height
            THEN [nan |-> FALSE, infinite |-> FALSE, exponent |-> <<width - par * height, par * height>>]
            ELSE [nan |-> FALSE, infinite |-> FALSE, exponent |-> <<par * height - width, width>>]
    IN factor(getCanvasWidth(geo), getCanvasHeight(geo))

\* TDiagramCost.cost with gamma = 0, where Math.pow(ar, gamma) - 1 is 0 for
\* every ar, NaN and Infinity included
cost(geo, branches, alpha, beta) ==
    LET answer(branches_factor, intersections_) ==
            [branches_factor |-> branches_factor,
             intersection_factor |-> intersections_,
             ar_factor |-> ar_factor(geo, PreferedAspectRatio),
             total |-> alpha * branches_factor + beta * intersections_]
    IN answer(branches * branches, intersections(geo))

\* the child distances introduceBreaks searches
ChildDistances(geo, node) ==
    LET g == Get(geo, node) IN
    [i \in 1..Len(g.children) |-> Abs(Get(geo, g.children[i]).x - g.x) + Abs(Get(geo, g.children[i]).y - g.y)]

\* the length introduceBreaks gives a break node: what is left of the branch
BreakLengthWhole(length, l) == length

BreakLength(length, l) == length - l

\* the pointing introduceBreaks gives a break node
BreakPointing(pointing) == IF pointing % 2 = VERTICAL THEN POINTING_RIGHT ELSE POINTING_UP

\* one iteration of the forEach of introduceBreaks: the geometry map after
\* breaking `node` at `break_at` (hundredths), the break being named 'b'+rand
introduceBreak(geo, node, break_at, rand) ==
    LET g == Get(geo, node)
        l == (g.length * break_at) \div FracDen
        break_node_name == BreakName(rand)
        break_node(newChildren) ==
            [name |-> break_node_name,
             x |-> g.x + (g.pointing % 2) * (IF g.pointing = POINTING_RIGHT THEN 1 ELSE -1) * l,
             y |-> g.y + ((g.pointing + 1) % 2) * (IF g.pointing = POINTING_DOWN THEN 1 ELSE -1) * l,
             pointing |-> BreakPointing(g.pointing),
             length |-> BreakLength(g.length, l),
             parent |-> node,
             children |-> newChildren,
             hidden |-> TRUE,
             branch_at |-> <<l>>]
        updated(kept, last, newChildren) ==
            [i \in 1..Len(geo) |->
               IF geo[i].name = node THEN [geo[i] EXCEPT !.children = kept \o <<break_node_name, last>>, !.length = l]
               ELSE IF geo[i].name \in Range(newChildren) THEN [geo[i] EXCEPT !.parent = break_node_name]
               ELSE geo[i]]
        added(kept, last, newChildren) == Append(updated(kept, last, newChildren), break_node(newChildren))
        moved(kept, spliced) ==
            IF spliced = <<>> THEN added(kept, NoName, <<>>)
            ELSE added(kept, spliced[Len(spliced)], SubSeq(spliced, 1, Len(spliced) - 1))
        split(index_to_break) ==
            moved(SubSeq(g.children, 1, Min(index_to_break, Len(g.children))),
                  SubSeq(g.children, index_to_break + 1, Len(g.children)))
    IN split(binarySearch(ChildDistances(geo, node), l))

\* the do-while that draws the number of a break name until 'b'+rand is no
\* key of the geometry.  Every unused number is a possible draw and the code
\* only ever compares names for equality, so the outcomes differ by a renaming
\* of the break nodes: the model takes the least unused number.
FreshRand(geo) == CHOOSE r \in 1..(Len(geo) + 1) : ~HasKey(geo, BreakName(r)) /\ \A q \in 1..(r - 1) : HasKey(geo, BreakName(q))

RECURSIVE introduceAll(_, _)
\* Object.keys(breaks).forEach(...): breaks is a sequence of <<node, fraction>>
introduceAll(geo, breaks) ==
    IF breaks = <<>> THEN geo
    ELSE introduceAll(introduceBreak(geo, Head(breaks)[1], Head(breaks)[2], FreshRand(geo)), Tail(breaks))

\* the node updateFromGeometry makes of a geometry entry
DiagramNode(geo, node) ==
    LET root == node.parent = NoName
        parent == Get(geo, node.parent)
    IN [name |-> node.name, parent |-> node.parent,
        direction |-> IF root THEN "right" ELSE IF parent.pointing - node.pointing > 0 THEN "left" ELSE "right",
        length |-> node.length,
        seq |-> IF root THEN 0 ELSE IndexOf(parent.children, node.name),
        branch_at |-> node.branch_at, hidden |-> node.hidden, children |-> <<>>,
        end_added |-> FALSE, pointing |-> node.pointing, x |-> node.x, y |-> node.y]

\* a sort that takes the nodes as they are popped, without their ancestors
AncestorsNone(geo, parent, added) == <<>>

RECURSIVE Ancestors(_, _, _)
\* the while loop of the topological sort: the not yet added ancestors of a
\* node, nearest first, up to the first added or missing one
Ancestors(geo, parent, added) ==
    IF ~HasKey(geo, parent) \/ parent \in added THEN <<>>
    ELSE <<parent>> \o Ancestors(geo, Get(geo, parent).parent, added \cup {parent})

RECURSIVE sort(_, _, _)
\* the topological sort of updateFromGeometry, on the names of the list
sort(geo, tree_, added) ==
    IF tree_ = <<>> THEN <<>>
    ELSE LET node == tree_[Len(tree_)]
             rest == SubSeq(tree_, 1, Len(tree_) - 1)
             answer == IF node \in added THEN <<>> ELSE <<node>> \o Ancestors(geo, Get(geo, node).parent, added)
         IN Reverse(answer) \o sort(geo, rest, added \cup Range(answer))

\* the sorted node list updateFromGeometry hands to new TDiagram
sorted_tdiagram(geo) ==
    LET nodes(order) == [i \in 1..Len(order) |-> DiagramNode(geo, Get(geo, order[i]))]
    IN nodes(sort(geo, SelectSeq(Keys(geo), LAMBDA k : ~EndsWithEnd(k)), {}))

\* updateFromGeometry: the rebuilt tdiagram
updateFromGeometry(geo) == TDiagram(sorted_tdiagram(geo))

\* introduceBreaks(breaks): the engine's tdiagram after the call (its geometry
\* is getGeometry of it, its num_branches the number of keys)
introduceBreaks(geo, breaks) == updateFromGeometry(introduceAll(geo, breaks))

\* ------------------------------------------------ the cost engine as a machine

\* the break fractions the model hands to introduceBreaks, in hundredths
Fractions == {50, 80}

\* how many introduceBreaks calls one engine receives
MaxCalls == 2
\* how many keys one bend map holds
MaxKeys == 2
\* how many break nodes one engine's geometry holds
MaxBends == 2

\* lengths of the modelled diagrams are multiples of this unit: every bend
\* divides a length by 2 or by 5, and a child without branch_at sits at a
\* half or a third of its parent's length
LengthUnit == 12 * 10^MaxBends

L1 == LengthUnit
L2 == 2 * LengthUnit

\* the diagrams an engine is built from: parent-before-child lists with seq
\* equal to the position among the siblings
Diagrams ==
    { <<Node("R", NoName, "", L1, 0, <<>>)>>,
      <<Node("R", NoName, "", L2, 0, <<>>), Node("A", Name("R"), "right", L1, 0, <<>>)>>,
      <<Node("R", NoName, "", L2, 0, <<>>), Node("A", Name("R"), "right", L1, 0, <<>>), Node("B", Name("R"), "right", L1, 1, <<>>)>>,
      <<Node("R", NoName, "", L2, 0, <<>>), Node("A", Name("R"), "right", L1, 0, <<L1 \div 2>>), Node("B", Name("R"), "right", L1, 1, <<L1>>)>>,
      <<Node("R", NoName, "", L2, 0, <<>>), Node("A", Name("R"), "right", L1, 0, <<L1>>), Node("B", Name("R"), "right", L1, 1, <<L1>>)>>,
      <<Node("R", NoName, "", L2, 0, <<>>), Node("A", Name("R"), "left", L2, 0, <<>>), Node("B", Name("A"), "left", L1, 0, <<>>)>>,
      <<Node("R", NoName, "", L2, 0, <<>>), Node("A", Name("R"), "right", L2, 0, <<>>), Node("B", Name("A"), "right", L1, 0, <<>>)>>,
      <<Node("R", NoName, "", L2, 0, <<>>), Node("A", Name("R"), "left", L2, 0, <<>>), Node("B", Name("A"), "right", L1, 0, <<L1>>)>> }

\* one cost engine: the diagram it was built from, its tdiagram and geometry,
\* num_branches, and what its last introduceBreaks and cost calls saw
VARIABLES diagram, tdiagram, geometry, num_branches, calls, last_breaks, prev_geometry, last_cost

\* one drawer: its constructor arguments, population and id counter, the
\* position of its learn call, and what that call has shown its observers
VARIABLES population_size, mutation_prob, cost_params, population, counter, pc, iteration, generation_limit, newpop, events, selected, result

\* what the last call of the breeding function did to the child's bend map
VARIABLES breeding

\* the engines of the specimens, as objects next to the base diagram: what each
\* was asked, its tdiagram and geometry, and the node objects of the base
\* diagram its geometry map holds
VARIABLES engines

engine == <<num_branches, calls, last_breaks, prev_geometry, last_cost>>

drawer == <<population_size, mutation_prob, cost_params, population, counter, pc, iteration, generation_limit, newpop, events, selected, result, breeding, engines>>

vars == <<diagram, tdiagram, geometry, engine, drawer>>

\* the names a bend map may break: the non-hidden nodes of the geometry
Eligible(geo) == {geo[i].name : i \in {j \in 1..Len(geo) : ~geo[j].hidden}}

\* the bend maps over a set of names: sequences of <<name, fraction>> with
\* distinct names, in key order
BendMaps(names) ==
    {m \in UNION {[1..k -> names \X Fractions] : k \in 0..MaxKeys} :
        \A i, j \in 1..Len(m) : i # j => m[i][1] # m[j][1]}

Bends(geo) == {i \in 1..Len(geo) : geo[i].name.s = "b" /\ ~geo[i].name.e}

\* no call of the breeding function yet
NoBreeding == [crossed |-> <<>>, fire |-> <<>>, mutated |-> <<>>, remove |-> FALSE, removed |-> <<>>, breaks |-> <<>>]

\* the ar_factor of a cost that was not computed
NoFactor == [nan |-> FALSE, infinite |-> FALSE, exponent |-> <<0, 0>>]

NoCost == [branches_factor |-> -1, intersection_factor |-> -1, ar_factor |-> NoFactor, total |-> -1]

\* new TDiagramCost(new TDiagram(diagram))
CostInit ==
    /\ diagram \in Diagrams
    /\ tdiagram = TDiagram(diagram)
    /\ geometry = getGeometry(tdiagram)
    /\ num_branches = 0
    /\ calls = 0
    /\ last_breaks = <<>>
    /\ prev_geometry = geometry
    /\ last_cost = NoCost
    /\ population_size = 0
    /\ mutation_prob = 0
    /\ cost_params = <<0, 0>>
    /\ population = <<>>
    /\ counter = 0
    /\ pc = "absent"
    /\ iteration = 0
    /\ generation_limit = 0
    /\ newpop = <<>>
    /\ events = <<>>
    /\ selected = <<>>
    /\ result = <<>>
    /\ breeding = NoBreeding
    /\ engines = <<>>

\* self.num_branches after introduceBreaks(breaks)
NumBranches(breaks) == Len(breaks)

\* engine.introduceBreaks(breaks)
IntroduceBreaks ==
    /\ calls < MaxCalls
    /\ \E breaks \in BendMaps(Eligible(geometry)) :
         /\ Cardinality(Bends(geometry)) + Len(breaks) <= MaxBends
         /\ num_branches' = NumBranches(breaks)
         /\ tdiagram' = introduceBreaks(geometry, breaks)
         /\ geometry' = getGeometry(tdiagram')
         /\ last_breaks' = breaks
    /\ prev_geometry' = geometry
    /\ calls' = calls + 1
    /\ last_cost' = NoCost
    /\ UNCHANGED <<diagram, drawer>>

\* the cost weights <<alpha, beta>> the model draws
Weights == {<<1, 1>>, <<5, 2>>}

\* engine.cost(alpha, beta, 0, prefered_aspect_ratio)
Cost ==
    /\ \E w \in Weights : last_cost' = cost(geometry, num_branches, w[1], w[2])
    /\ UNCHANGED <<diagram, tdiagram, geometry, num_branches, calls, last_breaks, prev_geometry, drawer>>

CostNext == IntroduceBreaks \/ Cost

CostSpec == CostInit /\ [][CostNext]_vars

\* ------------------------------------------------- claims on the cost engine

NameSet(geo) == Range(Keys(geo))

\* what a claim observes of a geometry entry
Observed(g) == [x |-> g.x, y |-> g.y, pointing |-> g.pointing, length |-> g.length, parent |-> g.parent, children |-> g.children]

SameGeometry(g, h) == NameSet(g) = NameSet(h) /\ \A nm \in NameSet(g) : Observed(Get(g, nm)) = Observed(Get(h, nm))

\* an introduceBreaks call has just returned
Called == calls > 0

\* the nodes the last call added to the geometry with parent n: its breaks of n
BreaksOf(n) == {i \in 1..Len(geometry) : ~HasKey(prev_geometry, geometry[i].name) /\ geometry[i].parent = n}

\* the point at distance d from node g along its pointing
Advance(g, d) ==
    [x |-> g.x + (IF getCoordToUpdate(g.pointing) = "x" THEN d * getDirectionToUpdate(g.pointing) ELSE 0),
     y |-> g.y + (IF getCoordToUpdate(g.pointing) = "y" THEN d * getDirectionToUpdate(g.pointing) ELSE 0)]

\* C5: introduceBreaks({}) leaves the geometry map observably unchanged (same
\* names and per node the same coordinates, orientation, length, parent and
\* ordered children) and sets num_branches to 0.
C5_EmptyBreaksKeepGeometry == (Called /\ last_breaks = <<>>) => (SameGeometry(prev_geometry, geometry) /\ num_branches = 0)

\* C6: after introduceBreaks({n: f}) on a node of length L, n has length L*f
\* and the geometry has exactly one new node with parent n: it is hidden, has
\* length L*(1-f) and sits at n's coordinate advanced by L*f along n's
\* orientation, so that the two lengths sum to L.
C6_BreakSplitsLength ==
    (Called /\ Len(last_breaks) = 1) =>
        LET n == last_breaks[1][1]
            f == last_breaks[1][2]
            L == Get(prev_geometry, n).length
            now == Get(geometry, n)
        IN /\ now.length * FracDen = L * f
           /\ Cardinality(BreaksOf(n)) = 1
           /\ \A i \in BreaksOf(n) :
                 /\ geometry[i].hidden
                 /\ ~EndsWithEnd(geometry[i].name)
                 /\ geometry[i].length * FracDen = L * (FracDen - f)
                 /\ now.length + geometry[i].length = L
                 /\ [x |-> geometry[i].x, y |-> geometry[i].y] = Advance(now, now.length)

\* C6 witness: a one-key call broke a node that has real children
C6_Witness == Called /\ Len(last_breaks) = 1 /\ BreaksOf(last_breaks[1][1]) # {} /\ Len(Get(prev_geometry, last_breaks[1][1]).children) > 1

\* the children of n before the last call, its own segment-end apart, whose
\* distance from n satisfies far (or not)
RealChildren(n) == SelectSeq(Get(prev_geometry, n).children, LAMBDA c : c # EndName(n))

DistanceBefore(n, c) == Abs(Get(prev_geometry, c).x - Get(prev_geometry, n).x) + Abs(Get(prev_geometry, c).y - Get(prev_geometry, n).y)

\* C7: after introduceBreaks({n: f}) the break node's children, its own
\* segment-end apart, are the original children of n at distance >= L*f in
\* their original order, and n keeps the children at distance < L*f in order,
\* followed by the break node and n's own segment-end.
C7_ChildrenSplitAtBreak ==
    (Called /\ Len(last_breaks) = 1) =>
        LET n == last_breaks[1][1]
            f == last_breaks[1][2]
            L == Get(prev_geometry, n).length
            far == SelectSeq(RealChildren(n), LAMBDA c : DistanceBefore(n, c) * FracDen >= L * f)
            near == SelectSeq(RealChildren(n), LAMBDA c : DistanceBefore(n, c) * FracDen < L * f)
        IN \A i \in BreaksOf(n) :
              /\ geometry[i].children = far \o <<EndName(geometry[i].name)>>
              /\ Get(geometry, n).children = near \o <<geometry[i].name, EndName(n)>>

\* C8: a break node never points DOWN or LEFT, whatever the orientation of
\* the node it breaks (the claim: RIGHT for a horizontal-class node, UP
\* otherwise).
C8_BreakPointsUpOrRight ==
    Called => \A k \in 1..Len(last_breaks) : \A i \in BreaksOf(last_breaks[k][1]) :
                 geometry[i].pointing \in {POINTING_UP, POINTING_RIGHT}

\* C8 as stated: RIGHT when the broken node is horizontal-class, UP otherwise
C8_BreakPointingAsStated ==
    Called => \A k \in 1..Len(last_breaks) : \A i \in BreaksOf(last_breaks[k][1]) :
                 geometry[i].pointing = (IF Get(geometry, last_breaks[k][1]).pointing % 2 = HORIZONTAL THEN POINTING_RIGHT ELSE POINTING_UP)

\* C9 as stated: after any sequence of introduceBreaks calls num_branches is
\* the number of break nodes in the current geometry.
C9_NumBranchesCountsBends == num_branches = Cardinality(Bends(geometry))

\* C9, what the code keeps: after every introduceBreaks(m) call num_branches
\* is the number of keys of m, the map of the most recent call, and
\* cost(...).branches_factor is that number squared; it is the number of break
\* nodes in the geometry as long as the engine has received at most one call.
C9_NumBranchesIsLastMapSize ==
    /\ Called => num_branches = Len(last_breaks)
    /\ last_cost # NoCost => last_cost.branches_factor = Len(last_breaks) * Len(last_breaks)
    /\ calls <= 1 => num_branches = Cardinality(Bends(geometry))

\* C9: a second call on an engine whose geometry already holds bends, its
\* cost taken
C9_Witness == calls = 2 /\ last_cost # NoCost /\ Cardinality(Bends(geometry)) > Len(last_breaks) /\ Len(last_breaks) > 0

\* the diagrams of the claim whose branches neither cross nor overlap: a root
\* with a single right child, and a root with two right children attached at
\* different offsets
NonCrossing(d) ==
    \/ Len(d) = 2
    \/ Len(d) = 3 /\ d[2].parent = d[1].name /\ d[3].parent = d[1].name /\ d[2].branch_at # <<>> /\ d[3].branch_at # <<>> /\ d[2].branch_at # d[3].branch_at /\ d[2].direction = "right" /\ d[3].direction = "right"

\* two right children of the root forced to the same offset
Coinciding(d) == Len(d) = 3 /\ d[2].parent = d[1].name /\ d[3].parent = d[1].name /\ d[2].branch_at # <<>> /\ d[2].branch_at = d[3].branch_at /\ d[2].direction = d[3].direction

\* C10: intersections() returns 0 for a tree whose branches neither cross nor
\* overlap and a value > 0 when two sibling branches coincide.
C10_NoCrossingNoIntersections ==
    calls = 0 => /\ NonCrossing(diagram) => intersections(geometry) = 0
                 /\ Coinciding(diagram) => intersections(geometry) > 0

\* ------------------------------------------------------------- the drawer

\* the largest population_size a drawer is built with
MaxPop == 3
\* the largest generation_limit learn is called with
MaxGen == 2

\* the values Math.random() takes, in hundredths
RandomDraws == {0, 50, 99}
\* the values Math.random() * 0.8 + 0.1 takes, in hundredths
DrawnFractions == {10}
\* the values Math.random() * 0.1 takes, in hundredths
PerturbDraws == {0, 9}
\* the mutation_prob values a drawer is built with, in hundredths
MutationProbs == {0, 50, 100}
\* what a step_callback returns: false, true, or a falsy value that is not false
Answers == {"false", "true", "undefined"}

\* the diagram the drawer optimizes
BaseDiagram == <<Node("R", NoName, "", L2, 0, <<>>), Node("A", Name("R"), "right", L1, 0, <<>>)>>

\* Math.random() < p
Fires(r, p) == r < p

FireOutcomes(p) == {Fires(r, p) : r \in RandomDraws}

\* Math.random() > 0.5
TakeOutcomes == {r > 50 : r \in RandomDraws}

\* the entries of s at the positions in keep, in order
Filter(s, keep) ==
    LET idx == SelectSeq([k \in 1..Len(s) |-> k], LAMBDA k : k \in keep)
    IN [j \in 1..Len(idx) |-> s[idx[j]]]

\* a specimen {diagram, breaks, id}: the diagram is the base diagram with the
\* breaks introduced, so the model keeps the breaks; id is <<>> for NaN; evals
\* counts the evaluations of cost(specimen)
Specimen(breaks, id) == [id |-> id, breaks |-> breaks, cost |-> NoCost, evals |-> 0]

\* the breaks of a random specimen: the non-hidden geometry keys whose draw
\* fires, in key order, each with its own drawn fraction
randomBreaks(geo, fire, fs) ==
    LET idx == SelectSeq([k \in 1..Len(geo) |-> k], LAMBDA k : fire[k] /\ ~geo[k].hidden)
    IN [j \in 1..Len(idx) |-> <<geo[idx[j]].name, fs[idx[j]]>>]

RandomBreaks(geo, p) ==
    {randomBreaks(geo, fire, fs) : fire \in [1..Len(geo) -> FireOutcomes(p)], fs \in [1..Len(geo) -> DrawnFractions]}

\* createRandomSpecimenFromBreaks(breaks) with the id counter at id
createRandomSpecimenFromBreaks(breaks, id) == Specimen(breaks, id)

\* createPopulation(): it runs before counter is initialised, so every id is NaN
createPopulation(geo, size, p) == [1..size -> {createRandomSpecimenFromBreaks(b, <<>>) : b \in RandomBreaks(geo, p)}]

\* Math.min(0.1, Math.max(0.9, x + Math.random() * 0.1 - 0.05))
perturb(x, d) == Min(10, Max(90, x + d - 5))

\* the geometry every specimen's engine starts from: new TDiagramCost(diagram)
BaseGeometry == getGeometry(TDiagram(BaseDiagram))

\* every bend map a specimen can carry: distinct non-hidden nodes in any key
\* order, each with a drawn fraction or the fraction a perturbation leaves
SpecimenBreaks ==
    LET nodes == Eligible(BaseGeometry)
        fractions == DrawnFractions \cup {perturb(f, d) : f \in DrawnFractions, d \in PerturbDraws}
    IN {m \in UNION {[1..k -> nodes \X fractions] : k \in 0..Cardinality(nodes)} :
           \A j, k \in 1..Len(m) : j # k => m[j][1] # m[k][1]}

\* specimen.diagram.cost(alpha, beta, 0, prefered_aspect_ratio) of the engine
\* that createRandomSpecimenFromBreaks built with these breaks, for every
\* bend map and every pair of weights
engineCost ==
    {<<breaks, params, cost(getGeometry(introduceBreaks(BaseGeometry, breaks)), NumBranches(breaks), params[1], params[2])>> :
        breaks \in SpecimenBreaks, params \in Weights}

\* cost(specimen)
specimenCost(specimen, params) == (CHOOSE t \in engineCost : t[1] = specimen.breaks /\ t[2] = params)[3]

HasCost(specimen) == specimen.cost # NoCost

gradePopulationAgain(pop, params) ==
    [k \in 1..Len(pop) |-> [pop[k] EXCEPT !.cost = specimenCost(pop[k], params), !.evals = @ + 1]]

gradePopulation(pop, params) ==
    [k \in 1..Len(pop) |->
        IF ~HasCost(pop[k])
        THEN [pop[k] EXCEPT !.cost = specimenCost(pop[k], params), !.evals = @ + 1]
        ELSE pop[k]]

\* the reduce of performSelection: the largest total, starting from 0
RECURSIVE reduceMax(_, _)
reduceMax(t, pop) == IF pop = <<>> THEN t ELSE reduceMax(IF t < Head(pop).cost.total THEN Head(pop).cost.total ELSE t, Tail(pop))

performSelectionNoDraw(pop, draws) ==
    LET max == reduceMax(0, pop)
    IN Filter(pop, {k \in 1..Len(pop) : pop[k].cost.total < max})

\* performSelection() with draws[k] the Math.random() of the k-th specimen
performSelection(pop, draws) ==
    LET max == reduceMax(0, pop)
    IN Filter(pop, {k \in 1..Len(pop) : pop[k].cost.total * FracDen < draws[k] * max})

\* breaks[key] = v on an ordered map: in place when the key exists, appended
\* otherwise
Put(m, key, v) ==
    IF \E j \in 1..Len(m) : m[j][1] = key
    THEN [j \in 1..Len(m) |-> IF m[j][1] = key THEN <<key, v>> ELSE m[j]]
    ELSE Append(m, <<key, v>>)

RECURSIVE PutAll(_, _)
PutAll(m, items) == IF items = <<>> THEN m ELSE PutAll(Put(m, Head(items)[1], Head(items)[2]), Tail(items))

BreakKeys(m) == {m[j][1] : j \in 1..Len(m)}

\* crossover: the keys of p1 whose draw exceeds 0.5, then those of p2
crossover(b1, b2, take1, take2) ==
    PutAll(Filter(b1, {k \in 1..Len(b1) : take1[k]}), Filter(b2, {k \in 1..Len(b2) : take2[k]}))

\* mutation of the values: every key whose draw fires is perturbed
mutate(breaks, fire, ds) ==
    [k \in 1..Len(breaks) |-> IF fire[k] THEN <<breaks[k][1], perturb(breaks[k][2], ds[k])>> ELSE breaks[k]]

\* mutation by removal: delete branches[rand_branch] deletes from the array of
\* keys a property named by a key; breaks is left as it is
removeBranch(breaks, fire, rand) == breaks

\* every key of the geometry, hidden or not
possibleNodesAll(geo) == Keys(geo)

\* the non-hidden nodes of self.geometry, in key order
possibleNodes(geo) == Filter(Keys(geo), {k \in 1..Len(geo) : ~geo[k].hidden})

\* mutation by addition: a node that is not yet a key gets a drawn fraction
addBranch(breaks, fire, possible_nodes, random_node, frac) ==
    IF fire /\ Len(breaks) < Len(possible_nodes) THEN Put(breaks, random_node, frac) ELSE breaks

\* the maps each phase of breeding one child can produce
Crossed(b1, b2) ==
    {crossover(b1, b2, take1, take2) : take1 \in [1..Len(b1) -> TakeOutcomes], take2 \in [1..Len(b2) -> TakeOutcomes]}

Mutated(maps, p) ==
    UNION {{mutate(b, fire, ds) : fire \in [1..Len(b) -> FireOutcomes(p)], ds \in [1..Len(b) -> PerturbDraws]} : b \in maps}

Removed(maps, p) ==
    UNION {{removeBranch(b, fire, rand) : fire \in FireOutcomes(p), rand \in 0..Max(Len(b) - 1, 0)} : b \in maps}

Added(maps, geo, p) ==
    UNION {{addBranch(b, fire, possibleNodes(geo), node, frac) :
                fire \in FireOutcomes(p),
                node \in IF Len(b) < Len(possibleNodes(geo)) THEN Range(possibleNodes(geo)) \ BreakKeys(b) ELSE {NoName},
                frac \in DrawnFractions} : b \in maps}

\* the breaks of the children two parents can have
ChildBreaks(geo, b1, b2, p) == Added(Removed(Mutated(Crossed(b1, b2), p), p), geo, p)

\* what an observer is shown: which hook or callback, in which generation,
\* how many specimens, whether all of them carry a cost, and (for the step
\* callback) what it answered
Event(kind, gen, pop, ans) == [kind |-> kind, gen |-> gen, n |-> Len(pop), graded |-> \A k \in 1..Len(pop) : HasCost(pop[k]), ans |-> ans]

\* new TDiagramDrawer(cost_params, population_size, mutation_prob, diagram)
Init ==
    /\ diagram = BaseDiagram
    /\ tdiagram = TDiagram(diagram)
    /\ geometry = getGeometry(tdiagram)
    /\ num_branches = 0
    /\ calls = 0
    /\ last_breaks = <<>>
    /\ prev_geometry = geometry
    /\ last_cost = NoCost
    /\ population_size \in 1..MaxPop
    /\ mutation_prob \in MutationProbs
    /\ cost_params \in Weights
    /\ population \in createPopulation(geometry, population_size, mutation_prob)
    /\ counter = 0
    /\ pc = "idle"
    /\ iteration = 0
    /\ generation_limit = 0
    /\ newpop = <<>>
    /\ events = <<>>
    /\ selected = <<>>
    /\ result = <<>>
    /\ breeding = NoBreeding
    /\ engines = <<>>

\* learn(generation_limit, step_callback, callbacks): the loop test of i = 0
Learn ==
    /\ pc = "idle"
    /\ \E limit \in 0..MaxGen :
         /\ generation_limit' = limit
         /\ pc' = IF 0 < limit THEN "step" ELSE "returned"
         /\ result' = IF 0 < limit THEN <<>> ELSE <<population>>
    /\ UNCHANGED <<diagram, tdiagram, geometry, engine, breeding, engines, population_size, mutation_prob, cost_params, population, counter, iteration, newpop, events, selected>>

\* step: gradePopulation() and the pre hook
Grade ==
    /\ pc = "step"
    /\ population' = gradePopulation(population, cost_params)
    /\ events' = Append(events, Event("pre", iteration, population', ""))
    /\ pc' = "select"
    /\ UNCHANGED <<diagram, tdiagram, geometry, engine, breeding, engines, population_size, mutation_prob, cost_params, counter, iteration, generation_limit, newpop, selected, result>>

\* step: performSelection() and the selection hook; selected keeps the
\* population and the draws of the selection until breeding starts
Select ==
    /\ pc = "select"
    /\ \E draws \in [1..Len(population) -> RandomDraws] :
         /\ population' = performSelection(population, draws)
         /\ selected' = <<population, draws>>
    /\ events' = Append(events, Event("selection", iteration, population', ""))
    /\ pc' = "breed"
    /\ UNCHANGED <<diagram, tdiagram, geometry, engine, breeding, engines, population_size, mutation_prob, cost_params, counter, iteration, generation_limit, newpop, result>>

\* step: one call of the breeding map's function; the parents are the
\* survivors, and the loop that draws p2 ends only with p2 # p1
Breed ==
    /\ pc = "breed"
    /\ Len(newpop) < population_size
    /\ \E p1, p2 \in 1..Len(population) :
         /\ p2 # p1
         /\ \E breaks \in ChildBreaks(geometry, population[p1].breaks, population[p2].breaks, mutation_prob) :
              newpop' = Append(newpop, createRandomSpecimenFromBreaks(breaks, <<counter>>))
    /\ counter' = counter + 1
    /\ selected' = <<>>
    /\ UNCHANGED <<diagram, tdiagram, geometry, engine, breeding, engines, population_size, mutation_prob, cost_params, population, pc, iteration, generation_limit, events, result>>

\* step: the map's result becomes the population, gradePopulation() and the
\* breeding hook
Bred ==
    /\ pc = "breed"
    /\ Len(newpop) = population_size
    /\ population' = gradePopulation(newpop, cost_params)
    /\ events' = Append(events, Event("breeding", iteration, population', ""))
    /\ newpop' = <<>>
    /\ pc' = "callback"
    /\ UNCHANGED <<diagram, tdiagram, geometry, engine, breeding, engines, population_size, mutation_prob, cost_params, counter, iteration, generation_limit, selected, result>>

StopsOnFalsy(ans) == ans # "true"

\* ans === false
Stops(ans) == ans = "false"

\* learn: step_callback(i, costs), the break, i++ and the loop test
StepCallback ==
    /\ pc = "callback"
    /\ \E ans \in Answers :
         /\ events' = Append(events, Event("step_callback", iteration, population, ans))
         /\ iteration' = IF Stops(ans) THEN iteration ELSE iteration + 1
         /\ pc' = IF ~Stops(ans) /\ iteration + 1 < generation_limit THEN "step" ELSE "returned"
         /\ result' = IF ~Stops(ans) /\ iteration + 1 < generation_limit THEN <<>> ELSE <<population>>
    /\ UNCHANGED <<diagram, tdiagram, geometry, engine, breeding, engines, population_size, mutation_prob, cost_params, population, counter, generation_limit, newpop, selected>>

Next == Learn \/ Grade \/ Select \/ Breed \/ Bred \/ StepCallback

Spec == Init /\ [][Next]_vars

\* --------------------------------------------------------- claims on learn

\* C1: every learn call returns: a step that is breeding and still owes a
\* child finds two distinct parents whatever selection left, so that in
\* every state learn has returned or can take its next step.
C1_LearnNeverStuck == pc = "returned" \/ ENABLED Next

Kinds == <<"pre", "selection", "breeding", "step_callback">>

\* C2: the k-th thing learn shows its observers is the pre hook, the selection
\* hook, the breeding hook or the step callback of generation (k-1) div 4, in
\* this order; the pre and breeding hooks see a population in which every
\* specimen has a cost, and a hook sees the population of that moment; a
\* callback that answers false is the last event and learn has returned; and
\* learn returns the current population, after generation_limit generations
\* unless a callback answered false.
C2_EventsInOrder ==
    /\ \A k \in 1..Len(events) :
          /\ events[k].kind = Kinds[((k - 1) % 4) + 1]
          /\ events[k].gen = (k - 1) \div 4
          /\ events[k].kind \in {"pre", "breeding"} => events[k].graded
          /\ (k = Len(events) /\ pc # "returned" /\ newpop = <<>>) => events[k].n = Len(population)
          /\ events[k].ans = "false" => (k = Len(events) /\ pc = "returned")
    /\ Len(events) <= 4 * generation_limit
    /\ pc = "returned" =>
          /\ Len(events) % 4 = 0
          /\ result = <<population>>
          /\ (Len(events) = 0 \/ events[Len(events)].ans # "false") => Len(events) = 4 * generation_limit

\* C2, the generations it promises: whenever learn can take no further step,
\* generation_limit generations have shown all their events or a step callback
\* answered false.
C2_GenerationsRunToLimit == ENABLED Next \/ Len(events) = 4 * generation_limit \/ (Len(events) > 0 /\ events[Len(events)].ans = "false")

\* C2 witness: two generations ran, the second callback answered false
C2_Witness == Len(events) = 8 /\ events[4].ans = "undefined" /\ events[8].ans = "false"

\* C3: outside breeding the population holds population_size specimens; once
\* a step has completed every one of them carries a cost; the cost list of
\* every step callback has population_size entries, all defined; and a cost is
\* computed at most once per specimen and is the cost of its engine.
C3_PopulationSizedAndGraded ==
    /\ pc # "breed" => Len(population) = population_size
    /\ (pc # "breed" /\ Len(events) >= 3) => \A k \in 1..Len(population) : HasCost(population[k])
    /\ \A k \in 1..Len(events) : events[k].kind = "step_callback" => (events[k].n = population_size /\ events[k].graded)
    /\ \A pop \in {population, newpop} : \A k \in 1..Len(pop) :
          /\ pop[k].evals <= 1
          /\ HasCost(pop[k]) => (pop[k].evals = 1 /\ pop[k].cost = specimenCost(pop[k], cost_params))

\* C3 witness: the second step has graded a population that the first step
\* had graded already
C3_Witness == pc = "select" /\ iteration = 1 /\ Len(population) = MaxPop

\* C4: right after performSelection the population consists of exactly the
\* specimens of the previous population whose total cost is strictly less
\* than their own draw times the largest total cost of that population, in
\* their previous order.
C4_SelectionKeepsBelowDraw ==
    selected # <<>> =>
        LET before == selected[1]
            draws == selected[2]
            totals == {before[k].cost.total : k \in 1..Len(before)}
            largest == CHOOSE m \in totals : \A t \in totals : t <= m
            keep == {k \in 1..Len(before) : before[k].cost.total * FracDen < draws[k] * largest}
        IN /\ Len(population) = Cardinality(keep)
           /\ \A j \in 1..Len(population) :
                 population[j] = before[CHOOSE k \in keep : Cardinality({m \in keep : m < k}) = j - 1]

\* C4 witness: a selection kept a specimen and dropped, for its draw, one that
\* costs less than the largest cost
C4_Witness ==
    /\ selected # <<>>
    /\ Len(population) >= 1
    /\ \E k \in 1..Len(selected[1]) :
          /\ selected[1][k].cost.total < reduceMax(0, selected[1])
          /\ selected[1][k].cost.total * FracDen >= selected[2][k] * reduceMax(0, selected[1])
\* C13: in every geometry map of a cost engine, each node that is no
\* segment-end has exactly one segment-end child, the last of its children;
\* that child is hidden, has length 0 and no children, and sits at the node's
\* coordinate advanced by the node's length along the node's pointing.
C13_OneSegmentEndPerNode ==
    \A i \in 1..Len(geometry) :
        LET g == geometry[i] IN
        ~EndsWithEnd(g.name) =>
            /\ Cardinality({j \in 1..Len(g.children) : EndsWithEnd(g.children[j])}) = 1
            /\ g.children[Len(g.children)] = EndName(g.name)
            /\ HasKey(geometry, EndName(g.name))
            /\ LET e == Get(geometry, EndName(g.name))
               IN /\ e.hidden
                  /\ e.length = 0
                  /\ e.children = <<>>
                  /\ e.parent = g.name
                  /\ [x |-> e.x, y |-> e.y] = Advance(g, g.length)

\* C13 witness: two calls have left two break nodes and a node with real
\* children in the geometry
C13_Witness ==
    /\ calls = 2
    /\ Cardinality(Bends(geometry)) = 2
    /\ \E i \in 1..Len(geometry) : ~geometry[i].hidden /\ Len(geometry[i].children) > 2

\* a layout whose canvas has no width or no height
ZeroCanvas(geo) == getCanvasWidth(geo) = 0 \/ getCanvasHeight(geo) = 0

\* C14: cost on a layout whose canvas width or canvas height is zero returns
\* no result (it fails with DegenerateGeometry): while the layout has a zero
\* canvas no cost is held, so none with a non-finite ar_factor
C14_DegenerateGeometryRefused == ZeroCanvas(geometry) => last_cost = NoCost

\* C14: every cost that was returned has a finite ar_factor
C14_ArFactorFinite == last_cost # NoCost => (~last_cost.ar_factor.nan /\ ~last_cost.ar_factor.infinite)

\* the span of a projected segment, whichever way it points
Span(p) == <<Min(p.projected[1], p.projected[2]), Max(p.projected[1], p.projected[2])>>

\* two projected segments on the same line whose spans share a point
Overlap(p, q) == p.other = q.other /\ Span(p)[1] <= Span(q)[2] /\ Span(q)[1] <= Span(p)[2]

\* the number of unordered pairs of projected segments that overlap
OverlappingPairs(ps) ==
    Cardinality({ij \in (1..Len(ps)) \X (1..Len(ps)) : ij[1] < ij[2] /\ Overlap(ps[ij[1]], ps[ij[2]])})

\* the horizontal (axis 0) or vertical (axis 1) segments of a geometry, projected
Projected(axis, geo) ==
    LET along(segs) == [i \in 1..Len(segs) |-> project(axis, segs[i])]
    IN IF axis = 0 THEN along(SelectSeq(Segments(geo), is_horizontal)) ELSE along(SelectSeq(Segments(geo), is_vertical))

\* C19: the same-orientation overlap count is the number of unordered pairs
\* of segments on the same line whose spans share at least one point,
\* touching endpoints included: for the horizontal and for the vertical
\* segments of every geometry whose cost was computed
C19_OverlapCountIsPairCount ==
    last_cost # NoCost =>
        /\ uni_dir_intersections(Projected(0, geometry)) = OverlappingPairs(Projected(0, geometry))
        /\ uni_dir_intersections(Projected(1, geometry)) = OverlappingPairs(Projected(1, geometry))

\* a segment with its endpoints in ascending order
Ascending(seg) ==
    IF seg[1][1] < seg[2][1] \/ (seg[1][1] = seg[2][1] /\ seg[1][2] <= seg[2][2]) THEN seg ELSE inverse(seg)

\* the distinct segments of an array, duplicates and inverses merged
Distinct(segs) == {Ascending(segs[i]) : i \in 1..Len(segs)}

\* the horizontal h and the vertical v, both ascending, share a point
Crosses(h, v) ==
    /\ is_horizontal(h) /\ is_vertical(v)
    /\ h[1][1] <= v[1][1] /\ v[1][1] <= h[2][1]
    /\ v[1][2] <= h[1][2] /\ h[1][2] <= v[2][2]

\* an order of the ascending segments, to take each pair once
Before(s, t) ==
    LET a == <<s[1][1], s[1][2], s[2][1], s[2][2]>>
        b == <<t[1][1], t[1][2], t[2][1], t[2][2]>>
    IN \E k \in 1..4 : a[k] < b[k] /\ \A j \in 1..(k - 1) : a[j] = b[j]

\* the number of (horizontal, vertical) pairs of distinct segments that
\* share a point
CrossingPairs(segs) ==
    Cardinality({p \in Distinct(segs) \X Distinct(segs) :
                    Before(p[1], p[2]) /\ (Crosses(p[1], p[2]) \/ Crosses(p[2], p[1]))})

\* C20: the count of the left-to-right sweep is the number of (horizontal,
\* vertical) pairs of segments that share a point, each pair once, whatever
\* duplicates and ties of first endpoints the geometry has
C20_SweepCountIsCrossingPairs ==
    last_cost # NoCost => perp_intersections(Segments(geometry)) = CrossingPairs(Segments(geometry))

\* C20 without duplicates: the same for the geometries whose segments are
\* all different and none of length 0
C20_SweepCountWithoutDuplicates ==
    (/\ last_cost # NoCost
     /\ \A i \in 1..Len(Segments(geometry)) : Segments(geometry)[i][1] # Segments(geometry)[i][2]
     /\ Cardinality(Distinct(Segments(geometry))) = Len(Segments(geometry)))
        => perp_intersections(Segments(geometry)) = CrossingPairs(Segments(geometry))

\* an id that is a number: NaN, the id counter++ yields while counter is
\* undefined, is none
NumericId(specimen) == Len(specimen.id) = 1

\* C16: at every point of the optimizer's life the specimens of the current
\* population have numeric ids, distinct from one another
C16_DistinctNumericIds ==
    /\ \A k \in 1..Len(population) : NumericId(population[k])
    /\ \A j, k \in 1..Len(population) : j # k => population[j].id # population[k].id

\* C16: the specimens bred by a step have numeric ids, distinct from one another
C16_BredIdsDistinct ==
    pc = "callback" =>
        /\ \A k \in 1..Len(population) : NumericId(population[k])
        /\ \A j, k \in 1..Len(population) : j # k => population[j].id # population[k].id

\* ------------------------------------------------ the tree engine as a machine

\* how many times computeCoord() or the constructor run again on one node list
MaxBuilds == 2

\* a node set with two levels of children, one of them attached beyond the
\* end of its parent's branch
FourNodes ==
    { Node("R", NoName, "", 3 * L1, 0, <<>>), Node("A", Name("R"), "left", L2, 0, <<>>),
      Node("B", Name("R"), "left", L1, 1, <<L1 \div 2>>), Node("C", Name("B"), "right", L1, 0, <<L2>>) }

\* a list whose second node names a parent that is no node of the list
MissingParent == <<Node("R", NoName, "", L2, 0, <<>>), Node("A", Name("X"), "right", L1, 0, <<>>)>>

\* the lists that enumerate a set of nodes, in every order
Orderings(S) == {d \in [1..Cardinality(S) -> S] : \A i, j \in 1..Cardinality(S) : i # j => d[i] # d[j]}

\* the node lists a TDiagram is built from
NodeLists == UNION {Orderings(Range(d)) : d \in Diagrams} \cup Orderings(FourNodes) \cup {MissingParent}

\* the diagram array after new TDiagram(diagram): reversed in place, its items
\* being the node objects of the tree
diagramAfter(dia, t) == [i \in 1..Len(dia) |-> t.nodes[dia[Len(dia) + 1 - i].name]]

\* new TDiagram(list) followed by the first coordinate-requiring query
TreeInit ==
    /\ \E d \in NodeLists :
         /\ tdiagram = TDiagram(d)
         /\ diagram = diagramAfter(d, tdiagram)
    /\ geometry = getGeometry(tdiagram)
    /\ num_branches = 0
    /\ calls = 0
    /\ last_breaks = <<>>
    /\ prev_geometry = geometry
    /\ last_cost = NoCost
    /\ population_size = 0
    /\ mutation_prob = 0
    /\ cost_params = <<0, 0>>
    /\ population = <<>>
    /\ counter = 0
    /\ pc = "absent"
    /\ iteration = 0
    /\ generation_limit = 0
    /\ newpop = <<>>
    /\ events = <<>>
    /\ selected = <<>>
    /\ result = <<>>
    /\ breeding = NoBreeding
    /\ engines = <<>>

\* tdiagram.computeCoord() called again, then tdiagram.getGeometry()
ComputeCoord ==
    /\ calls < MaxBuilds
    /\ tdiagram' = computeCoord(tdiagram)
    /\ diagram' = [i \in 1..Len(diagram) |-> tdiagram'.nodes[diagram[i].name]]
    /\ geometry' = getGeometry(tdiagram')
    /\ prev_geometry' = geometry
    /\ calls' = calls + 1
    /\ last_cost' = NoCost
    /\ UNCHANGED <<num_branches, last_breaks, drawer>>

\* a second new TDiagram(diagram) on the same array, then its getGeometry()
Reconstruct ==
    /\ calls < MaxBuilds
    /\ tdiagram' = TDiagram(diagram)
    /\ diagram' = diagramAfter(diagram, tdiagram')
    /\ geometry' = getGeometry(tdiagram')
    /\ prev_geometry' = geometry
    /\ calls' = calls + 1
    /\ last_cost' = NoCost
    /\ UNCHANGED <<num_branches, last_breaks, drawer>>

\* new TDiagramCost(tdiagram).intersections()
Intersections ==
    /\ last_cost' = [NoCost EXCEPT !.intersection_factor = intersections(geometry)]
    /\ UNCHANGED <<diagram, tdiagram, geometry, num_branches, calls, last_breaks, prev_geometry, drawer>>

TreeNext == ComputeCoord \/ Reconstruct \/ Intersections

TreeSpec == TreeInit /\ [][TreeNext]_vars

\* --------------------------------------------------- claims on the tree engine

\* what the user gave of a node
Given(item) == [name |-> item.name, parent |-> item.parent, direction |-> item.direction,
                length |-> item.length, seq |-> item.seq, branch_at |-> item.branch_at]

\* every node of the list has no parent or follows its parent, and one node
\* only has no parent
ParentBeforeChild(dia) ==
    /\ Cardinality({i \in 1..Len(dia) : dia[i].parent = NoName}) = 1
    /\ \A i \in 1..Len(dia) : dia[i].parent = NoName \/ \E j \in 1..(i - 1) : dia[j].name = dia[i].parent

\* the engine is the first one built from its list, which was valid
FirstEngine == calls = 0 /\ ParentBeforeChild(Reverse(diagram))

\* the valid orderings of the nodes of the engine's list
Reorderings == {d \in NodeLists : ParentBeforeChild(d) /\ {Given(d[i]) : i \in 1..Len(d)} = {Given(diagram[i]) : i \in 1..Len(diagram)}}

\* C11: the intersection count of an engine built from a valid list is the
\* count of the engine built from any other parent-before-child ordering of
\* the same nodes.
C11_IntersectionsOrderIndependent ==
    (FirstEngine /\ last_cost # NoCost) =>
        \A d \in Reorderings : intersections(getGeometry(TDiagram(d))) = last_cost.intersection_factor

\* the two maps hold the same names at the same coordinates
SameCoordinates(g, h) == NameSet(g) = NameSet(h) /\ \A nm \in NameSet(g) : Get(g, nm).x = Get(h, nm).x /\ Get(g, nm).y = Get(h, nm).y

\* C12: on an engine built from a valid list, computing the coordinates again
\* gives every node the coordinates it had, and a second engine built from the
\* same list has the geometry map of the first.
C12_SecondComputationSame == [][(FirstEngine /\ calls' = 1) => SameCoordinates(geometry, geometry')]_vars

\* C12, computeCoord() alone: the second computation on the same engine
C12_ComputeCoordAgainSame == [][(FirstEngine /\ ComputeCoord) => SameCoordinates(geometry, geometry')]_vars

\* C12, the constructor alone: the second engine on the same list
C12_SecondEngineSame == [][(FirstEngine /\ Reconstruct) => SameGeometry(geometry, geometry')]_vars

\* C15: an engine built from a list is never left with more than one entry
\* in its top-level map: a list in which a node's parent is missing or does
\* not precede it is refused when the tree is built.
C15_OneTopLevelEntry == calls = 0 => Len(tdiagram.top) = 1

\* C15, the refusal alone: no engine exists for a list that is not
\* parent-before-child
C15_InvalidListRefused == calls = 0 => ParentBeforeChild(Reverse(diagram))


\* -------------------------------------------- breeding one child as a machine

\* how many children the breeding function is followed for
MaxBred == 1

\* the bend maps of the survivors that become parents
ParentBreaks == {m \in BendMaps(Eligible(BaseGeometry)) : Len(m) > 0}

\* a graded specimen with these breaks
Graded(breaks, params) ==
    [Specimen(breaks, <<>>) EXCEPT
        !.cost = cost(getGeometry(introduceBreaks(BaseGeometry, breaks)), NumBranches(breaks), params[1], params[2]),
        !.evals = 1]

\* a step that has graded and selected, and is about to breed from two parents
BreedInit ==
    /\ diagram = BaseDiagram
    /\ tdiagram = TDiagram(diagram)
    /\ geometry = getGeometry(tdiagram)
    /\ num_branches = 0
    /\ calls = 0
    /\ last_breaks = <<>>
    /\ prev_geometry = geometry
    /\ last_cost = NoCost
    /\ population_size = 2
    /\ mutation_prob \in MutationProbs
    /\ cost_params \in Weights
    /\ \E b1, b2 \in ParentBreaks : population = <<Graded(b1, cost_params), Graded(b2, cost_params)>>
    /\ counter = 0
    /\ pc = "breed"
    /\ iteration = 0
    /\ generation_limit = 1
    /\ newpop = <<>>
    /\ events = <<>>
    /\ selected = <<>>
    /\ result = <<>>
    /\ breeding = NoBreeding
    /\ engines = <<>>

\* step: one call of the breeding map's function, keeping what each of its
\* phases did to the child's bend map
BreedChild ==
    /\ pc = "breed"
    /\ Len(newpop) < MaxBred
    /\ \E p1, p2 \in 1..Len(population) :
         /\ p2 # p1
         /\ \E take1 \in [1..Len(population[p1].breaks) -> TakeOutcomes],
               take2 \in [1..Len(population[p2].breaks) -> TakeOutcomes] :
              LET crossed == crossover(population[p1].breaks, population[p2].breaks, take1, take2) IN
              \E fire \in [1..Len(crossed) -> FireOutcomes(mutation_prob)], ds \in [1..Len(crossed) -> PerturbDraws] :
                LET mutated == mutate(crossed, fire, ds) IN
                \E remove \in FireOutcomes(mutation_prob), rand \in 0..Max(Len(mutated) - 1, 0) :
                  LET removed == removeBranch(mutated, remove, rand) IN
                  \E add \in FireOutcomes(mutation_prob),
                     node \in IF Len(removed) < Len(possibleNodes(geometry))
                              THEN Range(possibleNodes(geometry)) \ BreakKeys(removed)
                              ELSE {NoName},
                     frac \in DrawnFractions :
                    LET breaks == addBranch(removed, add, possibleNodes(geometry), node, frac) IN
                    /\ newpop' = Append(newpop, createRandomSpecimenFromBreaks(breaks, <<counter>>))
                    /\ breeding' = [crossed |-> crossed, fire |-> fire, mutated |-> mutated,
                                    remove |-> remove, removed |-> removed, breaks |-> breaks]
    /\ counter' = counter + 1
    /\ UNCHANGED <<diagram, tdiagram, geometry, engine, engines, population_size, mutation_prob, cost_params, population, pc, iteration, generation_limit, events, selected, result>>

BreedNext == BreedChild

BreedSpec == BreedInit /\ [][BreedNext]_vars

\* ------------------------------------------------------- claims on breeding

\* a child was bred and the state holds what its breeding did
ChildBred == Len(newpop) > 0

\* C17: when the remove-a-bend mutation fires on a child bend map with at
\* least one key, exactly one key is removed before the specimen is built:
\* the map after the removal has one key fewer than after crossover and
\* perturbation, and the bred specimen has that many bends, plus one when the
\* add-a-bend mutation added a key
C17_RemovalRemovesOneKey ==
    (ChildBred /\ breeding.remove /\ Len(breeding.mutated) >= 1) =>
        /\ Len(breeding.removed) = Len(breeding.mutated) - 1
        /\ BreakKeys(breeding.removed) \subseteq BreakKeys(breeding.mutated)
        /\ Len(newpop[Len(newpop)].breaks) = Len(breeding.mutated) - 1 + (IF breeding.breaks # breeding.removed THEN 1 ELSE 0)

\* C18: a bend fraction selected for perturbation ends up within 0.05 of its
\* value before the perturbation and inside [0.1, 0.9]
C18_PerturbedWithinBounds ==
    ChildBred =>
        \A k \in 1..Len(breeding.crossed) :
            breeding.fire[k] =>
                /\ breeding.mutated[k][2] - breeding.crossed[k][2] \in -5..5
                /\ breeding.mutated[k][2] \in 10..90

\* C18: a key not selected for perturbation keeps exactly the fraction
\* inherited from the parent it came from
C18_UnselectedKeepInherited ==
    ChildBred =>
        \A k \in 1..Len(breeding.crossed) :
            ~breeding.fire[k] =>
                /\ breeding.mutated[k] = breeding.crossed[k]
                /\ \E p \in 1..Len(population) : \E j \in 1..Len(population[p].breaks) : population[p].breaks[j] = breeding.mutated[k]
                /\ \E j \in 1..Len(newpop[Len(newpop)].breaks) : newpop[Len(newpop)].breaks[j] = breeding.mutated[k]

\* ------------------------------------------------ claims on the rebuilt engine

\* the geometry the last introduceBreaks call handed to updateFromGeometry
Mutated_geometry == introduceAll(prev_geometry, last_breaks)

\* the names of the nodes that are no segment-end
NodesOf(geo) == {geo[i].name : i \in {j \in 1..Len(geo) : ~EndsWithEnd(geo[j].name)}}

\* C21: the node list introduceBreaks derives from the mutated geometry holds
\* every node that is no segment-end, original and break nodes, exactly once,
\* and every node after its parent; the rebuilt engine has exactly one root
\* and its geometry holds every one of those nodes
C21_DerivedListIsTopological ==
    LET rebuilt(list, mutated) ==
            /\ {list[i].name : i \in 1..Len(list)} = NodesOf(mutated)
            /\ NodesOf(prev_geometry) \subseteq NodesOf(mutated)
            /\ Cardinality(NodesOf(mutated)) = Cardinality(NodesOf(prev_geometry)) + Len(last_breaks)
            /\ \A i, j \in 1..Len(list) : i # j => list[i].name # list[j].name
            /\ ParentBeforeChild(list)
            /\ Len(tdiagram.top) = 1
            /\ NodesOf(geometry) = NodesOf(mutated)
            /\ \A i, j \in 1..Len(geometry) : i # j => geometry[i].name # geometry[j].name
        derived(mutated) == rebuilt(sorted_tdiagram(mutated), mutated)
    IN Called => derived(Mutated_geometry)

\* C21 witness: the second call has left two break nodes, one of them with
\* children of its own besides its segment-end, and a node three levels
\* below the root
C21_Witness ==
    /\ calls = 2
    /\ Len(last_breaks) > 0
    /\ Cardinality(Bends(geometry)) = 2
    /\ \E i \in Bends(geometry) : Len(geometry[i].children) > 1
    /\ \E i \in 1..Len(geometry) :
         /\ ~EndsWithEnd(geometry[i].name)
         /\ geometry[i].parent # NoName
         /\ Get(geometry, geometry[i].parent).parent # NoName
         /\ Get(geometry, Get(geometry, geometry[i].parent).parent).parent # NoName

\* ----------------------------------------------------- claims on bend maps

\* every key of the bend map names a non-hidden node of the base diagram's
\* geometry, which is the geometry a fresh engine starts from, no key comes
\* twice, and every fraction lies in [0.1, 0.9]
ValidBreaks(breaks) ==
    /\ \A k \in 1..Len(breaks) :
         /\ HasKey(geometry, breaks[k][1])
         /\ ~Get(geometry, breaks[k][1]).hidden
         /\ ~EndsWithEnd(breaks[k][1])
         /\ breaks[k][1].s # "b"
         /\ HasKey(BaseGeometry, breaks[k][1])
         /\ breaks[k][2] \in 10..90
    /\ \A j, k \in 1..Len(breaks) : j # k => breaks[j][1] # breaks[k][1]

\* C22: across all generations every specimen, of the population and of the
\* one being bred, has a bend map whose keys name non-hidden nodes of the
\* base geometry and whose fractions lie in [0.1, 0.9]
C22_BendMapsValid ==
    /\ \A k \in 1..Len(population) : ValidBreaks(population[k].breaks)
    /\ \A k \in 1..Len(newpop) : ValidBreaks(newpop[k].breaks)

\* C22 witness: a second generation was bred and one of its specimens bends
\* every non-hidden node
C22_Witness ==
    /\ pc = "callback"
    /\ iteration = 1
    /\ \E k \in 1..Len(population) : BreakKeys(population[k].breaks) = Eligible(geometry)

\* C22 for one child: bred from parents with fractions inside (0.1, 0.9), it
\* has a valid bend map again
C22_ChildBendMapValid == ChildBred => ValidBreaks(newpop[Len(newpop)].breaks)

\* ------------------------------------- the specimens' engines as objects

\* how many specimens are followed
MaxSpecimens == 2

\* how many keys the bend map of one call on a specimen has at most
MaxSpecimenKeys == 1

\* the bend maps a specimen's engine with this geometry is asked
SpecimenMaps(geo) == {m \in BendMaps(Eligible(geo)) : Len(m) <= MaxSpecimenKeys}

\* a map of getGeometry that holds the tree's own node objects
getGeometryHoldsNodes(t) == DOMAIN t.nodes

\* the node objects of the tree that the map of getGeometry holds: none.
\* Every entry is built as an object literal with a coordinates object and a
\* children array of its own, and takes only strings, numbers and booleans
\* from the node
getGeometryHolds(t) == {}

\* new TDiagramCost(tdiagram): what it was asked so far, its tdiagram, its
\* geometry, and the node objects of the base diagram the geometry holds
TDiagramCost(t) == [history |-> <<>>, tdiagram |-> t, geometry |-> getGeometry(t), holds |-> getGeometryHolds(t)]

\* the engine after introduceBreaks(breaks): the entries of its geometry
\* become the nodes of its new tdiagram, and its geometry is getGeometry of that
Broken(e, breaks) ==
    LET after(rebuilt) ==
            [history |-> Append(e.history, breaks), tdiagram |-> rebuilt,
             geometry |-> getGeometry(rebuilt), holds |-> e.holds \cap getGeometryHolds(rebuilt)]
    IN after(introduceBreaks(e.geometry, breaks))

\* the node objects of the base diagram that introduceBreaks on the engine
\* writes to: updateFromGeometry sets direction, seq and added on every entry
\* of the geometry that is no segment-end and hands these objects to new
\* TDiagram, which sets their children, coordinates and pointing
WrittenBy(e) == {nm \in e.holds : HasKey(e.geometry, nm) /\ ~EndsWithEnd(nm)}

\* a tree some of whose node objects were written: they are the nodes of the
\* rebuilt tree, and list its break nodes and segment-ends as children
WriteTree(t, written, rebuilt) ==
    IF written = {} THEN t
    ELSE [t EXCEPT !.nodes =
            [nm \in DOMAIN t.nodes \cup DOMAIN rebuilt.nodes |->
                IF nm \in DOMAIN rebuilt.nodes /\ (nm \in written \/ nm \notin DOMAIN t.nodes \/ EndsWithEnd(nm))
                THEN rebuilt.nodes[nm] ELSE t.nodes[nm]]]

\* a geometry map some of whose entries are node objects that were written
WriteGeometry(geo, written, rebuilt) ==
    [i \in 1..Len(geo) |-> IF geo[i].name \in written THEN GeometryNode(rebuilt.nodes[geo[i].name]) ELSE geo[i]]

\* new TDiagramDrawer(..., diagram) on a diagram whose geometry was read
\* before: prev_geometry keeps that geometry map
ShareInit ==
    /\ diagram \in Diagrams
    /\ tdiagram = TDiagram(diagram)
    /\ geometry = getGeometry(tdiagram)
    /\ num_branches = 0
    /\ calls = 0
    /\ last_breaks = <<>>
    /\ prev_geometry = geometry
    /\ last_cost = NoCost
    /\ population_size = 0
    /\ mutation_prob = 0
    /\ cost_params = <<0, 0>>
    /\ population = <<>>
    /\ counter = 0
    /\ pc = "idle"
    /\ iteration = 0
    /\ generation_limit = 0
    /\ newpop = <<>>
    /\ events = <<>>
    /\ selected = <<>>
    /\ result = <<>>
    /\ breeding = NoBreeding
    /\ engines = <<>>

\* engine k, in the state e, runs introduceBreaks(breaks): what the call
\* writes lands on every map and tree that holds the written objects
Introduce(k, e, breaks) ==
    LET effect(written, after) ==
            /\ engines' = [j \in 1..Max(k, Len(engines)) |->
                              IF j = k THEN after
                              ELSE [engines[j] EXCEPT !.geometry = WriteGeometry(@, written \cap engines[j].holds, after.tdiagram)]]
            /\ tdiagram' = WriteTree(tdiagram, written, after.tdiagram)
            /\ geometry' = WriteGeometry(geometry, written \cap getGeometryHolds(tdiagram), after.tdiagram)
    IN effect(WrittenBy(e), Broken(e, breaks))

\* createRandomSpecimenFromBreaks(breaks): a new engine on the base diagram,
\* and introduceBreaks(breaks) on it
NewSpecimen ==
    /\ Len(engines) < MaxSpecimens
    /\ \E breaks \in SpecimenMaps(geometry) : Introduce(Len(engines) + 1, TDiagramCost(tdiagram), breaks)
    /\ UNCHANGED <<diagram, engine, population_size, mutation_prob, cost_params, population, counter, pc, iteration, generation_limit, newpop, events, selected, result, breeding>>

\* specimen.diagram.introduceBreaks(breaks) on a specimen of the population
BreakSpecimen ==
    /\ \E k \in 1..Len(engines) :
         /\ Len(engines[k].history) < MaxCalls
         /\ \E breaks \in SpecimenMaps(engines[k].geometry) :
              /\ Cardinality(Bends(engines[k].geometry)) + Len(breaks) <= MaxBends
              /\ Introduce(k, engines[k], breaks)
    /\ UNCHANGED <<diagram, engine, population_size, mutation_prob, cost_params, population, counter, pc, iteration, generation_limit, newpop, events, selected, result, breeding>>

ShareNext == NewSpecimen \/ BreakSpecimen

ShareSpec == ShareInit /\ [][ShareNext]_vars

\* ---------------------------------------------- claims on what is shared

RECURSIVE Replay(_, _)
\* the geometry of an engine that starts from geo and is asked the bend maps
\* of history, one introduceBreaks call each, with nothing else happening
Replay(geo, history) ==
    IF history = <<>> THEN geo ELSE Replay(getGeometry(introduceBreaks(geo, Head(history))), Tail(history))

====
